---------------------------- MODULE Spec2Model ----------------------------
(***************************************************************************)
(* Commission reconciliation pipeline of cap-analytics:                    *)
(*   DataNormalizer       (src/normalizer/normalizer.py)                   *)
(*   PerformanceAnalyzer  (src/analyzer/performance_analyzer.py)           *)
(*   name matching        (src/utils/name_matcher.py)                      *)
(*   standardize_date     (src/parser/base_parser.py)                      *)
(*                                                                         *)
(* Text is a sequence of one-character strings, so that the string         *)
(* transformations of the code (strip, split, capitalize, replace, float)  *)
(* are computed character by character.  A float is an exact decimal in    *)
(* thousandths of a dollar, or one of the IEEE specials inf, -inf, nan.    *)
(* DataFrames live on a heap of frames addressed by identity, so that      *)
(* copy() and plain assignment (aliasing) are distinguished.               *)
(***************************************************************************)
EXTENDS Integers, Sequences, FiniteSets, TLC

(***************************************************************************)
(* Characters                                                              *)
(***************************************************************************)
LowerChars == <<"a","b","c","d","e","f","g","h","i","j","k","l","m",
                "n","o","p","q","r","s","t","u","v","w","x","y","z">>

UpperChars == <<"A","B","C","D","E","F","G","H","I","J","K","L","M",
                "N","O","P","Q","R","S","T","U","V","W","X","Y","Z">>

DigitChars == <<"0","1","2","3","4","5","6","7","8","9">>

\* position of c in seq, 0 when absent
IndexOf(c, seq) ==
    IF \E i \in 1..Len(seq) : seq[i] = c
    THEN CHOOSE i \in 1..Len(seq) : seq[i] = c
    ELSE 0

IsSpace(c) == c = " "

LowerSet == {LowerChars[i] : i \in 1..Len(LowerChars)}

UpperSet == {UpperChars[i] : i \in 1..Len(UpperChars)}

DigitSet == {DigitChars[i] : i \in 1..Len(DigitChars)}

ToLower == [c \in UpperSet |-> LowerChars[IndexOf(c, UpperChars)]]

ToUpper == [c \in LowerSet |-> UpperChars[IndexOf(c, LowerChars)]]

DigitValue == [c \in DigitSet |-> IndexOf(c, DigitChars) - 1]

IsDigit(c) == c \in DigitSet

DigitVal(c) == DigitValue[c]

\* str.lower() on one character
LowerChar(c) == IF c \in UpperSet THEN ToLower[c] ELSE c

\* str.upper() on one character
UpperChar(c) == IF c \in LowerSet THEN ToUpper[c] ELSE c

\* str.lower()
Lower(s) == [i \in 1..Len(s) |-> LowerChar(s[i])]

\* str.strip(): drop leading and trailing whitespace
RECURSIVE LStrip(_)
LStrip(s) == IF s # <<>> /\ IsSpace(Head(s)) THEN LStrip(Tail(s)) ELSE s

RECURSIVE RStrip(_)
RStrip(s) ==
    IF s # <<>> /\ IsSpace(s[Len(s)]) THEN RStrip(SubSeq(s, 1, Len(s) - 1)) ELSE s

Strip(s) == RStrip(LStrip(s))

\* str.replace(c, ''): delete every occurrence of the character c
Remove(s, c) == SelectSeq(s, LAMBDA ch : ch # c)

\* str.split(): the maximal runs of non-whitespace characters, in order
RECURSIVE SplitAcc(_, _, _)
SplitAcc(s, cur, acc) ==
    IF s = <<>>
    THEN IF cur = <<>> THEN acc ELSE Append(acc, cur)
    ELSE IF IsSpace(Head(s))
         THEN SplitAcc(Tail(s), <<>>, IF cur = <<>> THEN acc ELSE Append(acc, cur))
         ELSE SplitAcc(Tail(s), Append(cur, Head(s)), acc)

Split(s) == SplitAcc(s, <<>>, <<>>)

\* sep.join(words)
RECURSIVE Join(_, _)
Join(words, sep) ==
    IF words = <<>> THEN <<>>
    ELSE IF Len(words) = 1 THEN words[1]
    ELSE words[1] \o sep \o Join(Tail(words), sep)

\* a capitalize that upper-cases the first character and keeps the rest
CapitalizeFirstOnly(w) ==
    [i \in 1..Len(w) |-> IF i = 1 THEN UpperChar(w[i]) ELSE w[i]]

\* str.capitalize(): first character upper case, the rest lower case
Capitalize(w) ==
    [i \in 1..Len(w) |-> IF i = 1 THEN UpperChar(w[i]) ELSE LowerChar(w[i])]

\* str(i) for a natural number i
RECURSIVE IntToStr(_)
IntToStr(i) ==
    IF i < 10 THEN <<DigitChars[i + 1]>>
    ELSE Append(IntToStr(i \div 10), DigitChars[(i % 10) + 1])

\* lexicographic s < t on character sequences over the model's alphabet
CharRank(c) ==
    IF c \in UpperSet THEN 100 + IndexOf(c, UpperChars)
    ELSE IF c \in LowerSet THEN 200 + IndexOf(c, LowerChars)
    ELSE IF IsDigit(c) THEN 50 + DigitVal(c)
    ELSE 0

RECURSIVE StrLess(_, _)
StrLess(s, t) ==
    IF t = <<>> THEN FALSE
    ELSE IF s = <<>> THEN TRUE
    ELSE IF Head(s) = Head(t) THEN StrLess(Tail(s), Tail(t))
    ELSE CharRank(Head(s)) < CharRank(Head(t))

(***************************************************************************)
(* Floats: exact decimals in thousandths, plus inf, -inf and nan           *)
(***************************************************************************)
Fin(v) == [k |-> "fin", v |-> v]

PosInf == [k |-> "inf", v |-> 1]

NegInf == [k |-> "inf", v |-> -1]

NaN == [k |-> "nan", v |-> 0]

IsNaN(a) == a.k = "nan"

IsFinite(a) == a.k = "fin"

\* IEEE addition
FAdd(a, b) ==
    IF IsNaN(a) \/ IsNaN(b) THEN NaN
    ELSE IF a.k = "inf" /\ b.k = "inf" THEN (IF a.v = b.v THEN a ELSE NaN)
    ELSE IF a.k = "inf" THEN a
    ELSE IF b.k = "inf" THEN b
    ELSE Fin(a.v + b.v)

\* IEEE a < b: false as soon as one side is nan
FLess(a, b) ==
    IF IsNaN(a) \/ IsNaN(b) THEN FALSE
    ELSE IF a.k = "inf" THEN a.v = -1 /\ b # NegInf
    ELSE IF b.k = "inf" THEN b.v = 1
    ELSE a.v < b.v

\* IEEE a >= b: false as soon as one side is nan
FGeq(a, b) ==
    IF IsNaN(a) \/ IsNaN(b) THEN FALSE
    ELSE ~FLess(a, b)

\* num/den rounded to the nearest integer, ties to the even one (den > 0)
RoundHalfEven(num, den) ==
    LET q == num \div den
        r == num - q * den
    IN  IF 2 * r < den THEN q
        ELSE IF 2 * r > den THEN q + 1
        ELSE IF q % 2 = 0 THEN q ELSE q + 1

\* Series.round(2) on the float a / den: two decimals, i.e. a multiple of 10
\* thousandths; inf and nan are left as they are
Round2(a, den) ==
    IF IsFinite(a) THEN Fin(10 * RoundHalfEven(a.v, 10 * den)) ELSE a


\* the characters of a string literal
Chars(str) == [i \in 1..Len(str) |-> SubSeq(str, i, i)]

StartsWith(s, p) == Len(s) >= Len(p) /\ SubSeq(s, 1, Len(p)) = p

EndsWith(s, p) == Len(s) >= Len(p) /\ SubSeq(s, Len(s) - Len(p) + 1, Len(s)) = p

(***************************************************************************)
(* Cells and frames                                                        *)
(***************************************************************************)
\* a cell of a DataFrame: None, a text or a float
Null == [t |-> "null", s |-> <<>>, f |-> Fin(0)]

Str(s) == [t |-> "str", s |-> s, f |-> Fin(0)]

Num(a) == [t |-> "num", s |-> <<>>, f |-> a]

\* pd.isna(val): None or a float nan
IsNA(c) == c.t = "null" \/ (c.t = "num" /\ IsNaN(c.f))

RequiredCols == {"carrier_name", "commission_period", "agent_name", "commission_amount"}

\* date_columns of normalize_dates
DateCols == {"enrollment_date", "disenrollment_date", "effective_date", "processed_date"}

OptionalCols == {"agency_name", "transaction_type", "member_id"} \cup DateCols

AllCols == RequiredCols \cup OptionalCols

\* apply fn to every cell of column col of a frame that has that column
MapColumn(fr, col, fn(_)) ==
    CHOOSE g \in { [f EXCEPT !.rows =
                      [i \in 1..Len(f.rows) |-> [f.rows[i] EXCEPT ![col] = fn(@)]]]
                   : f \in {fr} } : TRUE

(***************************************************************************)
(* float(str) of Python, on the texts of the model: optional sign, then    *)
(* inf / infinity / nan in any letter case, or digits with at most one     *)
(* dot and at most three decimals (no exponent, no underscores)            *)
(***************************************************************************)
IsDecimal(b) ==
    /\ \A i \in 1..Len(b) : IsDigit(b[i]) \/ b[i] = "."
    /\ Cardinality({i \in 1..Len(b) : b[i] = "."}) <= 1
    /\ \E i \in 1..Len(b) : IsDigit(b[i])

RECURSIVE DigitsVal(_)
DigitsVal(d) ==
    IF d = <<>> THEN 0 ELSE 10 * DigitsVal(SubSeq(d, 1, Len(d) - 1)) + DigitVal(d[Len(d)])

\* the value of a decimal text in thousandths
DecimalVal(b) ==
    LET dot  == IndexOf(".", b)
        ip   == IF dot = 0 THEN b ELSE SubSeq(b, 1, dot - 1)
        fp   == IF dot = 0 THEN <<>> ELSE SubSeq(b, dot + 1, Len(b))
        fp3  == SubSeq(fp \o <<"0", "0", "0">>, 1, 3)
    IN  1000 * DigitsVal(ip) + DigitsVal(fp3)

InfWords == {Chars("inf"), Chars("infinity")}

NanWord == Chars("nan")

ParseFloat(s0) ==
    LET s      == Strip(s0)
        signed == s # <<>> /\ s[1] \in {"+", "-"}
        neg    == s # <<>> /\ s[1] = "-"
        body   == IF signed THEN Tail(s) ELSE s
        lw     == Lower(body)
    IN  IF lw \in InfWords
        THEN [ok |-> TRUE, f |-> IF neg THEN NegInf ELSE PosInf]
        ELSE IF lw = NanWord THEN [ok |-> TRUE, f |-> NaN]
        ELSE IF IsDecimal(body)
        THEN [ok |-> TRUE, f |-> Fin((IF neg THEN -1 ELSE 1) * DecimalVal(body))]
        ELSE [ok |-> FALSE, f |-> Fin(0)]

(***************************************************************************)
(* DataNormalizer                                                          *)
(***************************************************************************)
\* a clean_amount that does not read enclosing parentheses as a minus sign
clean_amount_no_parens(val) ==
    IF IsNA(val) THEN Fin(0)
    ELSE IF val.t = "num" THEN val.f
    ELSE LET p == ParseFloat(Strip(Remove(Remove(val.s, "$"), ",")))
         IN  IF p.ok THEN p.f ELSE Fin(0)

\* clean_amount(val): the float stored for one commission_amount cell
clean_amount(val) ==
    IF IsNA(val) THEN Fin(0)
    ELSE IF val.t = "num" THEN val.f
    ELSE LET v1 == Strip(Remove(Remove(val.s, "$"), ","))
             v2 == IF StartsWith(v1, <<"(">>) /\ EndsWith(v1, <<")">>)
                   THEN <<"-">> \o SubSeq(v1, 2, Len(v1) - 1)
                   ELSE v1
             v3 == IF StartsWith(v2, <<"-", "$">>)
                   THEN <<"-">> \o SubSeq(v2, 3, Len(v2))
                   ELSE v2
             p  == ParseFloat(v3)
         IN  IF p.ok THEN p.f ELSE Fin(0)

\* the days of month m of year y, 0 when m is no month
DaysIn(y, m) ==
    IF m \in {1, 3, 5, 7, 8, 10, 12} THEN 31
    ELSE IF m \in {4, 6, 9, 11} THEN 30
    ELSE IF m = 2
    THEN (IF y % 4 = 0 /\ (y % 100 # 0 \/ y % 400 = 0) THEN 29 ELSE 28)
    ELSE 0

ValidDate(y, m, d) == y >= 1 /\ d >= 1 /\ d <= DaysIn(y, m)

AllDigits(s) == \A i \in 1..Len(s) : IsDigit(s[i])

\* i as text over at least w digits
RECURSIVE ZeroPad(_, _)
ZeroPad(s, w) == IF Len(s) >= w THEN s ELSE ZeroPad(<<"0">> \o s, w)

\* strftime('%Y-%m-%d')
IsoDate(y, m, d) ==
    ZeroPad(IntToStr(y), 4) \o <<"-">> \o ZeroPad(IntToStr(m), 2)
        \o <<"-">> \o ZeroPad(IntToStr(d), 2)

\* pd.to_datetime(format='mixed', errors='coerce') on one text, for the
\* layouts YYYY-MM-DD and NN/NN/YYYY (month first, day first when the
\* first number is no month); any other text is NaT
parse_mixed(s) ==
    IF Len(s) = 10 /\ s[5] = "-" /\ s[8] = "-"
       /\ AllDigits(SubSeq(s, 1, 4) \o SubSeq(s, 6, 7) \o SubSeq(s, 9, 10))
    THEN LET y == DigitsVal(SubSeq(s, 1, 4))
             m == DigitsVal(SubSeq(s, 6, 7))
             d == DigitsVal(SubSeq(s, 9, 10))
         IN  [ok |-> ValidDate(y, m, d), y |-> y, m |-> m, d |-> d]
    ELSE IF Len(s) = 10 /\ s[3] = "/" /\ s[6] = "/"
            /\ AllDigits(SubSeq(s, 1, 2) \o SubSeq(s, 4, 5) \o SubSeq(s, 7, 10))
    THEN LET a == DigitsVal(SubSeq(s, 1, 2))
             b == DigitsVal(SubSeq(s, 4, 5))
             y == DigitsVal(SubSeq(s, 7, 10))
         IN  IF ValidDate(y, a, b) THEN [ok |-> TRUE, y |-> y, m |-> a, d |-> b]
             ELSE [ok |-> ValidDate(y, b, a), y |-> y, m |-> b, d |-> a]
    ELSE [ok |-> FALSE, y |-> 0, m |-> 0, d |-> 0]

\* to_datetime(...).dt.strftime('%Y-%m-%d') on one cell: the ISO text, or
\* nan for NaT; the date cells of the model are texts or null
normalize_date(c) ==
    IF c.t # "str" THEN Num(NaN)
    ELSE CHOOSE out \in { IF p.ok THEN Str(IsoDate(p.y, p.m, p.d)) ELSE Num(NaN)
                          : p \in {parse_mixed(c.s)} } : TRUE

\* normalize_dates: every date column the frame has
normalize_dates(fr) ==
    [fr EXCEPT !.rows =
        [i \in 1..Len(fr.rows) |->
            [c \in fr.cols |->
                IF c \in DateCols THEN normalize_date(fr.rows[i][c])
                ELSE fr.rows[i][c]]]]

\* normalize_amounts: commission_amount = apply(clean_amount).astype(float)
normalize_amounts(fr) ==
    MapColumn(fr, "commission_amount", LAMBDA c : Num(clean_amount(c)))

UnknownAgent == Chars("Unknown Agent")

\* a clean_name without the sentinel: a null name stays null, a blank one
\* becomes the empty text
clean_name_no_sentinel(name) ==
    IF IsNA(name) THEN name
    ELSE LET words == Split(Strip(name.s))
         IN  Str(Join([i \in 1..Len(words) |-> Capitalize(words[i])], <<" ">>))

\* clean_name(name); names of the model are texts or null
clean_name(name) ==
    IF IsNA(name) \/ Strip(name.s) = <<>>
    THEN Str(UnknownAgent)
    ELSE LET words == Split(Strip(name.s))
         IN  Str(Join([i \in 1..Len(words) |-> Capitalize(words[i])], <<" ">>))

\* normalize_names: agent_name, then agency_name, each when present
normalize_names(fr) ==
    LET f1 == IF "agent_name" \in fr.cols
              THEN MapColumn(fr, "agent_name", clean_name) ELSE fr
    IN  IF "agency_name" \in f1.cols
        THEN MapColumn(f1, "agency_name", clean_name) ELSE f1

\* transaction_mapping of standardize_transaction_types
transaction_mapping ==
    { <<Chars("new"), Chars("New")>>,
      <<Chars("renewal"), Chars("Renewal")>>,
      <<Chars("renew"), Chars("Renewal")>>,
      <<Chars("cancel"), Chars("Cancellation")>>,
      <<Chars("cancellation"), Chars("Cancellation")>>,
      <<Chars("terminate"), Chars("Termination")>>,
      <<Chars("termination"), Chars("Termination")>>,
      <<Chars("adjustment"), Chars("Adjustment")>>,
      <<Chars("adj"), Chars("Adjustment")>>,
      <<Chars("bonus"), Chars("Bonus")>>,
      <<Chars("commission"), Chars("Commission")>>,
      <<Chars("reversal"), Chars("Reversal")>>,
      <<Chars("correction"), Chars("Correction")>> }

Other == Chars("Other")

\* the mapping applied without .str.lower()
map_transaction_type_no_lower(c) ==
    IF c.t # "str" THEN Str(Other)
    ELSE IF \E e \in transaction_mapping : e[1] = c.s
    THEN Str((CHOOSE e \in transaction_mapping : e[1] = c.s)[2])
    ELSE Str(Other)

\* .str.lower().map(transaction_mapping).fillna('Other') on one cell
map_transaction_type(c) ==
    IF c.t # "str" THEN Str(Other)
    ELSE IF \E e \in transaction_mapping : e[1] = Lower(c.s)
    THEN Str((CHOOSE e \in transaction_mapping : e[1] = Lower(c.s))[2])
    ELSE Str(Other)

\* the .str accessor refuses a column of float dtype: one that holds numbers
\* and no text
IsFloatColumn(fr, col) ==
    /\ \E i \in 1..Len(fr.rows) : fr.rows[i][col].t = "num"
    /\ \A i \in 1..Len(fr.rows) : fr.rows[i][col].t # "str"

\* standardize_transaction_types: [ok, fr]
standardize_transaction_types(fr) ==
    IF "transaction_type" \notin fr.cols THEN [ok |-> TRUE, fr |-> fr]
    ELSE IF IsFloatColumn(fr, "transaction_type") THEN [ok |-> FALSE, fr |-> fr]
    ELSE [ok |-> TRUE, fr |-> MapColumn(fr, "transaction_type", map_transaction_type)]

\* str(x) of a float: repr with at least one decimal
FloatToStr(a) ==
    IF IsNaN(a) THEN Chars("nan")
    ELSE IF a = PosInf THEN Chars("inf")
    ELSE IF a = NegInf THEN Chars("-inf")
    ELSE LET m   == IF a.v < 0 THEN -a.v ELSE a.v
             fr3 == <<DigitChars[((m \div 100) % 10) + 1],
                      DigitChars[((m \div 10) % 10) + 1],
                      DigitChars[(m % 10) + 1]>>
             fr  == IF m % 1000 = 0 THEN <<"0">>
                    ELSE IF m % 100 = 0 THEN SubSeq(fr3, 1, 1)
                    ELSE IF m % 10 = 0 THEN SubSeq(fr3, 1, 2)
                    ELSE fr3
         IN  (IF a.v < 0 THEN <<"-">> ELSE <<>>) \o IntToStr(m \div 1000) \o <<".">> \o fr

IsAlnum(c) == IsDigit(c) \/ c \in LowerSet \/ c \in UpperSet

\* astype(str).str.strip().str.replace(r'[^a-zA-Z0-9]', '') on one cell
clean_member_id(c) ==
    LET s == IF c.t = "str" THEN c.s
             ELSE IF c.t = "null" THEN Chars("None")
             ELSE FloatToStr(c.f)
    IN  Str(SelectSeq(Strip(s), IsAlnum))

\* clean_member_ids
clean_member_ids(fr) ==
    IF "member_id" \in fr.cols THEN MapColumn(fr, "member_id", clean_member_id) ELSE fr

\* validate_required_fields: [ok, fr]; raises when a required column is
\* absent, else sets the nan amounts to 0.0
validate_required_fields(fr) ==
    IF RequiredCols \ fr.cols # {} THEN [ok |-> FALSE, fr |-> fr]
    ELSE [ok |-> TRUE,
          fr |-> MapColumn(fr, "commission_amount",
                           LAMBDA c : IF IsNA(c) THEN Num(Fin(0)) ELSE c)]

\* normalize(): the stages in order on self.data, which is changed in place
\* stage by stage; [ok, fr] is whether it returned (FALSE: it raised) and
\* what self.data holds afterwards
normalize(fr) ==
    IF "commission_amount" \notin fr.cols THEN [ok |-> FALSE, fr |-> fr]
    ELSE LET f2 == normalize_names(normalize_amounts(normalize_dates(fr)))
             s3 == standardize_transaction_types(f2)
         IN  IF ~s3.ok THEN s3
             ELSE validate_required_fields(clean_member_ids(s3.fr))

(***************************************************************************)
(* PerformanceAnalyzer.calculate_top_performers                            *)
(***************************************************************************)
\* no filter: the rows of every period
filter_period_all(fr, period) == fr.rows

\* self.data[self.data['commission_period'] == period].copy()
filter_period(fr, period) ==
    SelectSeq(fr.rows, LAMBDA r : r["commission_period"] = Str(period))

\* pd.to_numeric(errors='coerce').fillna(0.0) on one cell
to_numeric(c) ==
    IF c.t = "num" THEN (IF IsNaN(c.f) THEN Fin(0) ELSE c.f)
    ELSE IF c.t = "str"
    THEN LET p == ParseFloat(c.s) IN IF p.ok /\ ~IsNaN(p.f) THEN p.f ELSE Fin(0)
    ELSE Fin(0)

\* Series.unique(): the distinct values in order of first appearance
RECURSIVE Unique(_)
Unique(s) ==
    IF s = <<>> THEN <<>>
    ELSE LET u == Unique(SubSeq(s, 1, Len(s) - 1))
         IN  IF \E i \in 1..Len(u) : u[i] = s[Len(s)] THEN u ELSE Append(u, s[Len(s)])

\* Series.sum() of floats
RECURSIVE FSum(_)
FSum(s) == IF s = <<>> THEN Fin(0) ELSE FAdd(Head(s), FSum(Tail(s)))

\* sorted(texts)
RECURSIVE InsertStr(_, _)
InsertStr(sorted, e) ==
    IF sorted = <<>> THEN <<e>>
    ELSE IF StrLess(e, Head(sorted)) THEN <<e>> \o sorted
    ELSE <<Head(sorted)>> \o InsertStr(Tail(sorted), e)

RECURSIVE SortedStr(_)
SortedStr(s) ==
    IF s = <<>> THEN <<>> ELSE InsertStr(SortedStr(SubSeq(s, 1, Len(s) - 1)), s[Len(s)])

\* the rows of one agent, df[df['agent_name'] == agent]
agent_rows(rows, agent) ==
    SelectSeq(rows, LAMBDA r : ~IsNA(agent) /\ r["agent_name"] = agent)

\* ', '.join(sorted(agent_data['carrier_name'].unique())) raises TypeError
\* as soon as one carrier of the agent is not a text
carriers_raise(adata) ==
    \E i \in 1..Len(adata) : adata[i]["carrier_name"].t # "str"

\* one element of totals (lines 29-41), before rounding; the mean is kept as
\* the sum and the count it is the quotient of
agent_entry(rows, agent) ==
    LET adata == agent_rows(rows, agent)
        amts  == [i \in 1..Len(adata) |-> to_numeric(adata[i]["commission_amount"])]
        cars  == Unique([i \in 1..Len(adata) |-> adata[i]["carrier_name"].s])
    IN  [agent_name        |-> agent,
         total_commission  |-> FSum(amts),
         avg_sum           |-> IF Len(adata) = 0 THEN NaN ELSE FSum(amts),
         transaction_count |-> Len(adata),
         carriers          |-> Join(SortedStr(cars), <<",", " ">>)]

\* sort_values('total_commission', ascending=False): nan last, the others
\* by decreasing total, equal totals in their order of arrival
RECURSIVE InsertDesc(_, _)
InsertDesc(sorted, e) ==
    IF sorted = <<>> THEN <<e>>
    ELSE IF FLess(Head(sorted).total_commission, e.total_commission)
    THEN <<e>> \o sorted
    ELSE <<Head(sorted)>> \o InsertDesc(Tail(sorted), e)

RECURSIVE SortDescNonNan(_)
SortDescNonNan(s) ==
    IF s = <<>> THEN <<>>
    ELSE InsertDesc(SortDescNonNan(SubSeq(s, 1, Len(s) - 1)), s[Len(s)])

sort_values(totals) ==
    SortDescNonNan(SelectSeq(totals, LAMBDA e : ~IsNaN(e.total_commission)))
        \o SelectSeq(totals, LAMBDA e : IsNaN(e.total_commission))

\* steps 4-5: both amounts rounded to two decimals
round_entry(e) ==
    [agent_name        |-> e.agent_name,
     total_commission  |-> Round2(e.total_commission, 1),
     avg_commission    |-> Round2(e.avg_sum, IF e.transaction_count = 0 THEN 1
                                             ELSE e.transaction_count),
     transaction_count |-> e.transaction_count,
     carriers          |-> e.carriers]

AgentPrefix == Chars("Agent_")

NoCarriers == Chars("N/A")

\* new_row of step 7 for position i (counted from 0)
placeholder(i) ==
    [agent_name        |-> Str(AgentPrefix \o IntToStr(i + 1)),
     total_commission  |-> Fin(0),
     avg_commission    |-> Fin(0),
     transaction_count |-> 0,
     carriers          |-> NoCarriers]

\* step 7: fill to n records
fill_to_n(result, n) ==
    IF Len(result) < n
    THEN result \o [j \in 1..(n - Len(result)) |-> placeholder(Len(result) + j - 1)]
    ELSE result

\* result.tail(n): the last n entries
tail_n(result, n) ==
    SubSeq(result, IF Len(result) < n THEN 1 ELSE Len(result) - n + 1, Len(result))

\* step 8: result.head(n)
head(result, n) == SubSeq(result, 1, IF Len(result) < n THEN Len(result) ELSE n)

\* step 9: the final verification raises when a value is below its successor
sort_error(result) ==
    \E i \in 1..(Len(result) - 1) :
        FLess(result[i].total_commission, result[i + 1].total_commission)

\* calculate_top_performers(n, period) on the analyzer's frame: what it
\* returns, or the exception it raises
calculate_top_performers(fr, n, period) ==
    LET rows   == filter_period(fr, period)
        agents == Unique([i \in 1..Len(rows) |-> rows[i]["agent_name"]])
        totals == [i \in 1..Len(agents) |-> agent_entry(rows, agents[i])]
        sorted == sort_values(totals)
        top    == head(fill_to_n([i \in 1..Len(sorted) |-> round_entry(sorted[i])], n), n)
    IN  IF \E i \in 1..Len(agents) : carriers_raise(agent_rows(rows, agents[i]))
        THEN [status |-> "TypeError", entries |-> <<>>]
        ELSE IF totals = <<>>
        THEN [status |-> "KeyError", entries |-> <<>>]
        ELSE IF sort_error(top)
        THEN [status |-> "ValueError", entries |-> <<>>]
        ELSE [status |-> "returned", entries |-> top]

\* period_data = self.data[self.data['commission_period'] == period].copy()
\* followed by period_data['commission_amount'] = pd.to_numeric(...)
\* .fillna(0.0): the frame the three read operations compute on
numeric_period_data(fr, period) ==
    LET rows == filter_period(fr, period)
    IN  [cols |-> fr.cols,
         rows |-> [i \in 1..Len(rows) |->
                     [rows[i] EXCEPT !["commission_amount"] = Num(to_numeric(@))]]]

\* Series.nunique(): the distinct non-null values
nunique(rows, col) ==
    Cardinality({rows[i][col] : i \in {j \in 1..Len(rows) : ~IsNA(rows[j][col])}})

\* sorted(values) raises TypeError when it has to compare None with a text
sorted_raises(cells) ==
    Len(cells) > 1 /\ \E i \in 1..Len(cells) : cells[i].t # "str"

\* get_period_summary(period) called at time now: what it returns, or the
\* exception it raises
get_period_summary(fr, period, now) ==
    LET rows == numeric_period_data(fr, period).rows
        cars == Unique([i \in 1..Len(rows) |-> rows[i]["carrier_name"]])
    IN  IF "member_id" \notin fr.cols THEN [status |-> "KeyError", value |-> <<>>]
        ELSE IF sorted_raises(cars) THEN [status |-> "TypeError", value |-> <<>>]
        ELSE [status |-> "returned",
              value  |-> [total_commission   |->
                              FSum([i \in 1..Len(rows) |-> rows[i]["commission_amount"].f]),
                          total_transactions |-> Len(rows),
                          unique_agents      |-> nunique(rows, "agent_name"),
                          unique_members     |-> nunique(rows, "member_id"),
                          carriers           |->
                              IF Len(cars) = 1 THEN <<cars[1].s>>
                              ELSE SortedStr([i \in 1..Len(cars) |-> cars[i].s]),
                          period             |-> period,
                          generated_at       |-> now]]

\* one row of get_carrier_statistics: the aggregates of one carrier's rows
carrier_row(rows, carrier) ==
    LET crows == SelectSeq(rows, LAMBDA r : r["carrier_name"] = Str(carrier))
        total == FSum([i \in 1..Len(crows) |-> crows[i]["commission_amount"].f])
    IN  [carrier_name      |-> carrier,
         total_commission  |-> Round2(total, 1),
         transaction_count |-> Len(crows),
         avg_commission    |-> Round2(total, Len(crows)),
         unique_agents     |-> nunique(crows, "agent_name"),
         unique_members    |-> nunique(crows, "member_id")]

\* get_carrier_statistics(period): one row for each carrier in the order of
\* the sorted group keys (rows without a carrier are in no group), or the
\* exception raised
get_carrier_statistics(fr, period) ==
    LET rows == numeric_period_data(fr, period).rows
        keys == SortedStr(Unique(
                    [i \in 1..Len(SelectSeq(rows, LAMBDA r : r["carrier_name"].t = "str")) |->
                        SelectSeq(rows, LAMBDA r : r["carrier_name"].t = "str")[i]
                            ["carrier_name"].s]))
    IN  IF "member_id" \notin fr.cols THEN [status |-> "KeyError", value |-> <<>>]
        ELSE [status |-> "returned",
              value  |-> [i \in 1..Len(keys) |-> carrier_row(rows, keys[i])]]

(***************************************************************************)
(* Name matching (src/utils/name_matcher.py); a threshold is a number of   *)
(* hundredths, a name is a cell: a text or None                            *)
(***************************************************************************)
\* str.replace(old, new): every occurrence, left to right, not overlapping
RECURSIVE ReplaceAll(_, _, _)
ReplaceAll(s, old, new) ==
    IF Len(s) < Len(old) THEN s
    ELSE IF SubSeq(s, 1, Len(old)) = old
    THEN new \o ReplaceAll(SubSeq(s, Len(old) + 1, Len(s)), old, new)
    ELSE <<Head(s)>> \o ReplaceAll(Tail(s), old, new)

\* the keys of replacements, in the order of the dict; each becomes ' '
replacements ==
    << Chars(" inc "), Chars(" incorporated "), Chars(" corp "), Chars(" corporation "),
       Chars(" llc "), Chars(" ltd "), Chars(" limited ") >>

RECURSIVE RemoveSuffixes(_, _)
RemoveSuffixes(s, k) ==
    IF k > Len(replacements) THEN s
    ELSE RemoveSuffixes(ReplaceAll(s, replacements[k], <<" ">>), k + 1)

\* the characters re.sub(r'[^\w\s-]', '', name) keeps
IsNameChar(c) == IsAlnum(c) \/ c = "_" \/ IsSpace(c) \/ c = "-"

\* normalize_name without the conversion to lower case
normalize_name_no_lower(name) ==
    IF IsNA(name) THEN <<>>
    ELSE LET n1 == Join(Split(Strip(name.s)), <<" ">>)
         IN  Strip(RemoveSuffixes(SelectSeq(n1, IsNameChar), 1))

\* normalize_name(name): the comparison key of a name
normalize_name(name) ==
    IF IsNA(name) THEN <<>>
    ELSE LET n1 == Join(Split(Strip(Lower(name.s))), <<" ">>)
         IN  Strip(RemoveSuffixes(SelectSeq(n1, IsNameChar), 1))

\* a in b for texts
IsSubstring(a, b) ==
    \E i \in 1..(Len(b) - Len(a) + 1) : SubSeq(b, i, i + Len(a) - 1) = a

\* the length of the common run of a from i and b from j
RECURSIVE MatchLen(_, _, _, _)
MatchLen(a, b, i, j) ==
    IF i > Len(a) \/ j > Len(b) THEN 0
    ELSE IF a[i] # b[j] THEN 0
    ELSE 1 + MatchLen(a, b, i + 1, j + 1)

\* SequenceMatcher.find_longest_match over the whole of a and b (no junk):
\* a longest common block, the one starting earliest in a and, among
\* those, earliest in b
find_longest_match(a, b) ==
    LET len  == [p \in (1..Len(a)) \X (1..Len(b)) |-> MatchLen(a, b, p[1], p[2])]
        best == CHOOSE k \in {len[p] : p \in DOMAIN len} \cup {0} :
                    \A p \in DOMAIN len : len[p] <= k
        i0   == CHOOSE i \in 1..Len(a) :
                    /\ \E j \in 1..Len(b) : len[<<i, j>>] = best
                    /\ \A i2 \in 1..(i - 1) : \A j \in 1..Len(b) : len[<<i2, j>>] < best
        j0   == CHOOSE j \in 1..Len(b) :
                    /\ len[<<i0, j>>] = best
                    /\ \A j2 \in 1..(j - 1) : len[<<i0, j2>>] < best
    IN  IF best = 0 THEN [i |-> 0, j |-> 0, size |-> 0]
        ELSE [i |-> i0, j |-> j0, size |-> best]

\* the characters in the blocks of SequenceMatcher.get_matching_blocks: the
\* longest block, then the same to its left and to its right
RECURSIVE matching_total(_, _)
matching_total(a, b) ==
    IF a = <<>> \/ b = <<>> THEN 0
    ELSE CHOOSE total \in
            { IF m.size = 0 THEN 0
              ELSE m.size
                   + matching_total(SubSeq(a, 1, m.i - 1), SubSeq(b, 1, m.j - 1))
                   + matching_total(SubSeq(a, m.i + m.size, Len(a)),
                                    SubSeq(b, m.j + m.size, Len(b)))
              : m \in {find_longest_match(a, b)} } : TRUE

\* SequenceMatcher(None, a, b).ratio() >= threshold, ratio = 2.0 * M / T
ratio_at_least(a, b, threshold) ==
    IF Len(a) + Len(b) = 0 THEN 100 >= threshold
    ELSE 200 * matching_total(a, b) >= threshold * (Len(a) + Len(b))

\* set(name.split())
Words(s) == LET w == Split(s) IN {w[i] : i \in 1..Len(w)}

Min(x, y) == IF x < y THEN x ELSE y

\* are_similar_names(name1, name2, threshold)
are_similar_names(name1, name2, threshold) ==
    LET n1 == normalize_name(name1)
        n2 == normalize_name(name2)
    IN  IF n1 = <<>> \/ n2 = <<>> THEN FALSE
        ELSE IF n1 = n2 THEN TRUE
        ELSE IF IsSubstring(n1, n2) \/ IsSubstring(n2, n1) THEN TRUE
        ELSE IF Cardinality(Words(n1) \cap Words(n2))
                    >= Min(Cardinality(Words(n1)), Cardinality(Words(n2)))
        THEN TRUE
        ELSE ratio_at_least(n1, n2, threshold)

\* the sort key of find_canonical_name: (len(x.split()), len(x))
KeyLeq(x, y) ==
    \/ Len(Split(x.s)) < Len(Split(y.s))
    \/ Len(Split(x.s)) = Len(Split(y.s)) /\ Len(x.s) <= Len(y.s)

\* find_canonical_name(list(names)) for a set of names: '' when no name is
\* valid, else the first of the valid names sorted by the key; the sort is
\* stable and the list is in the iteration order of a set, so any valid name
\* with the least key can be the first
find_canonical_name(names) ==
    LET valid == {x \in names : ~IsNA(x) /\ x.s # <<>>}
    IN  IF valid = {} THEN {Str(<<>>)}
        ELSE {x \in valid : \A y \in valid : KeyLeq(x, y)}

\* groups[canonical] = list(similar_names)
SetItem(groups, key, val) ==
    [k \in DOMAIN groups \cup {key} |-> IF k = key THEN val ELSE groups[k]]

\* the inner loop without the test of processed: every other name similar
\* to names[k], assigned or not
similar_to_assigned_too(names, threshold, k, processed) ==
    {names[i] : i \in {j \in 1..Len(names) :
        /\ names[j] # names[k]
        /\ are_similar_names(names[k], names[j], threshold)}}

\* the inner loop of group_similar_names for the name names[k]: the other
\* names that are not processed and are similar to it
similar_to(names, threshold, k, processed) ==
    {names[i] : i \in {j \in 1..Len(names) :
        /\ names[j] # names[k]
        /\ names[j] \notin processed
        /\ are_similar_names(names[k], names[j], threshold)}}

\* the loop of group_similar_names from the k-th name on: the mappings it
\* can end with, each with the clusters built on the way, in order
RECURSIVE group_from(_, _, _, _, _, _)
group_from(names, threshold, k, processed, groups, built) ==
    IF k > Len(names) THEN {[groups |-> groups, built |-> built]}
    ELSE IF names[k] \in processed
    THEN group_from(names, threshold, k + 1, processed, groups, built)
    ELSE UNION { UNION { group_from(names, threshold, k + 1, processed \cup similar_names,
                                    SetItem(groups, canonical, similar_names),
                                    Append(built, similar_names))
                         : canonical \in find_canonical_name(similar_names) }
                 : similar_names \in
                     { {names[k]} \cup similar_to(names, threshold, k, processed) } }

\* group_similar_names(names, threshold): the mappings from canonical name
\* to cluster it can return (groups), each with the clusters of its run
group_similar_names(names, threshold) ==
    group_from(names, threshold, 1, {}, [k \in {} |-> {}], <<>>)

\* the index pairs (i, j), i < j <= n, in the order of the two loops of
\* match_names
RECURSIVE PairsFrom(_, _, _)
PairsFrom(i, j, n) ==
    IF i >= n THEN <<>>
    ELSE IF j > n THEN PairsFrom(i + 1, i + 2, n)
    ELSE <<(<<i, j>>)>> \o PairsFrom(i, j + 1, n)

\* match_names(names, threshold): the pairs of names whose comparison keys
\* are_similar_names accepts
match_names(names, threshold) ==
    LET norm == [i \in 1..Len(names) |-> Str(normalize_name(names[i]))]
        sel  == SelectSeq(PairsFrom(1, 2, Len(names)),
                          LAMBDA p : are_similar_names(norm[p[1]], norm[p[2]], threshold))
    IN  [k \in 1..Len(sel) |-> <<names[sel[k][1]], names[sel[k][2]]>>]

(***************************************************************************)
(* BaseCommissionParser.standardize_date (src/parser/base_parser.py)       *)
(***************************************************************************)
\* a datetime value
DateTime(y, m, d) == [t |-> "datetime", y |-> y, m |-> m, d |-> d]

\* str.split(sep): the parts between the separators, empty ones included
RECURSIVE SplitOnAcc(_, _, _, _)
SplitOnAcc(s, sep, cur, acc) ==
    IF s = <<>> THEN Append(acc, cur)
    ELSE IF Head(s) = sep THEN SplitOnAcc(Tail(s), sep, <<>>, Append(acc, cur))
    ELSE SplitOnAcc(Tail(s), sep, Append(cur, Head(s)), acc)

SplitOn(s, sep) == SplitOnAcc(s, sep, <<>>, <<>>)

\* the formats tried, in order: '%Y-%m-%d', '%m/%d/%Y', '%d-%m-%Y', '%Y/%m/%d'
DateFormats ==
    << [sep |-> "-", fields |-> <<"Y", "m", "d">>],
       [sep |-> "/", fields |-> <<"m", "d", "Y">>],
       [sep |-> "-", fields |-> <<"d", "m", "Y">>],
       [sep |-> "/", fields |-> <<"Y", "m", "d">>] >>

\* the texts a directive of strptime accepts: %Y four digits, %m one or two
\* digits from 1 to 12, %d one or two digits from 1 to 31 or a space and a
\* digit from 1 to 9
FieldMatches(directive, part) ==
    CASE directive = "Y" -> Len(part) = 4 /\ AllDigits(part)
      [] directive = "m" ->
            /\ Len(part) \in {1, 2} /\ AllDigits(part)
            /\ DigitsVal(part) \in 1..12
      [] OTHER ->
            \/ /\ Len(part) \in {1, 2} /\ AllDigits(part)
               /\ DigitsVal(part) \in 1..31
            \/ Len(part) = 2 /\ part[1] = " " /\ part[2] \in DigitSet \ {"0"}

\* datetime.strptime(s, fmt): the date, or not ok for the ValueError raised
\* when the text does not match the format or names no calendar date
strptime(s, fmt) ==
    LET parts == SplitOn(s, fmt.sep)
        val(directive) ==
            DigitsVal(SelectSeq(parts[IndexOf(directive, fmt.fields)], IsDigit))
    IN  IF Len(parts) = 3 /\ \A i \in 1..3 : FieldMatches(fmt.fields[i], parts[i])
        THEN [ok |-> ValidDate(val("Y"), val("m"), val("d")),
              y |-> val("Y"), m |-> val("m"), d |-> val("d")]
        ELSE [ok |-> FALSE, y |-> 0, m |-> 0, d |-> 0]

\* datetime.strftime('%Y-%m-%d'): month and day over two digits; the year
\* is written by the C library, which pads it to four digits on some
\* platforms and writes it without leading zeros on others (glibc)
strftime(y, m, d) ==
    { IsoDate(y, m, d),
      IntToStr(y) \o <<"-">> \o ZeroPad(IntToStr(m), 2) \o <<"-">> \o ZeroPad(IntToStr(d), 2) }

\* the first format from the k-th on that the text matches, 0 when none
RECURSIVE first_format(_, _)
first_format(s, k) ==
    IF k > Len(DateFormats) THEN 0
    ELSE IF strptime(s, DateFormats[k]).ok THEN k
    ELSE first_format(s, k + 1)

\* standardize_date(date_value): the values it can return
standardize_date(date_value) ==
    IF IsNA(date_value) THEN {Null}
    ELSE IF date_value.t = "datetime"
    THEN {Str(x) : x \in strftime(date_value.y, date_value.m, date_value.d)}
    ELSE IF date_value.t = "str"
    THEN UNION { IF k = 0 THEN {Null}
                 ELSE UNION { {Str(x) : x \in strftime(p.y, p.m, p.d)}
                              : p \in {strptime(date_value.s, DateFormats[k])} }
                 : k \in {first_format(date_value.s, 1)} }
    ELSE {Null}

(***************************************************************************)
(* Bounds and input domains                                                *)
(***************************************************************************)
\* rows of a caller's batch
MaxRows == 2

\* rows of a batch built from the rows of the three-record scenario
MaxScenarioRows == 3

\* DataNormalizer objects built in a run, each on the output of the one before
MaxNormalizers == 2

\* leaderboard sizes 1..MaxN are requested, and the default size
MaxN == 2

\* n of calculate_top_performers when the caller gives none
DefaultN == 10

DefaultPeriod == Chars("2024-06")

OtherPeriod == Chars("2024-05")

Periods == {DefaultPeriod, OtherPeriod}

NSet == (1..MaxN) \cup {DefaultN}

\* names of a list handed to group_similar_names
MaxNames == 3

\* threshold of are_similar_names and group_similar_names when none is given
DefaultThreshold == 85

Thresholds == {DefaultThreshold, 95}

\* names compared pairwise: null, empty, punctuation only, equal up to case
\* and punctuation, contained, same words in another order, close and far
NamePool ==
    { Null, Str(<<>>), Str(Chars(" . ")), Str(Chars("Acme Corp")), Str(Chars("acme")),
      Str(Chars("Acme Corp.")), Str(Chars("ACME Inc Group")), Str(Chars("corp acme")),
      Str(Chars("acme big corp")), Str(Chars("jon smith")), Str(Chars("john smith")),
      Str(Chars("anything")), Str(Chars("zeta")) }

\* names grouped: null, empty, two spellings of equal length, a shorter
\* form, an unrelated name and a name similar to both of the last two
GroupPool ==
    { Null, Str(<<>>), Str(Chars("Acme Corp")), Str(Chars("ACME CORP")),
      Str(Chars("acme")), Str(Chars("zeta")), Str(Chars("acme zeta")) }

\* names whose comparison key is computed: those compared pairwise, and
\* names with a suffix before a punctuation mark, with a punctuation mark
\* between two words, and with a suffix twice in a row
KeyPool ==
    NamePool \cup { Str(Chars("Acme")), Str(Chars("Acme Corp .")), Str(Chars("Acme, Inc.")),
                    Str(Chars("a . b")), Str(Chars("a inc inc b")),
                    Str(Chars("Acme Limited Group")) }

\* names matched pairwise in a list
MatchPool ==
    { Null, Str(Chars("abcd . e")), Str(Chars("abcde")), Str(Chars("Acme Corp")),
      Str(Chars("acme")) }

\* readings of the clock when a period summary is generated
Clock == {Chars("2024-07-01 09:00:00"), Chars("2024-07-01 09:00:01")}

\* a row holding the four required columns
Row(carrier, period, agent, amount) ==
    [c \in RequiredCols |->
        CASE c = "carrier_name"      -> carrier
          [] c = "commission_period" -> period
          [] c = "agent_name"        -> agent
          [] OTHER                   -> amount]

\* all sequences of at most n elements of S
RECURSIVE SeqsUpTo(_, _)
SeqsUpTo(S, n) ==
    IF n = 0 THEN {<<>>}
    ELSE LET shorter == SeqsUpTo(S, n - 1)
         IN  shorter \cup {Append(s, x) : s \in {q \in shorter : Len(q) = n - 1}, x \in S}

\* amounts of the ranking batches: two positive ones that differ by a
\* fraction of a cent, a negative one (parenthesized), and the two texts
\* float() reads as infinities
RankAmounts ==
    { Str(Chars("100.125")), Str(Chars("100.121")), Str(Chars("(50)")), Str(Chars("inf")),
      Str(Chars("-inf")) }

\* the negative amounts come from carrier B, the others from carrier A
RankRows ==
    { Row(Str(IF m.s[1] \in {"(", "-"} THEN Chars("B") ELSE Chars("A")), Str(p), Str(a), m) :
        p \in Periods, a \in {Chars("john smith"), Chars("JANE doe")}, m \in RankAmounts }

RankBatches == { [cols |-> RequiredCols, rows |-> r] : r \in SeqsUpTo(RankRows, MaxRows) }

\* batches for the read operations: records with a member_id, of one agent
\* with carrier A and another with carrier B, and the one-record batches
\* without that column
ReadRows ==
    { [c \in RequiredCols \cup {"member_id"} |->
          CASE c = "carrier_name"      -> Str(who[1])
            [] c = "commission_period" -> Str(p)
            [] c = "agent_name"        -> Str(who[2])
            [] c = "member_id"         -> Str(Chars("M1"))
            [] OTHER                   -> Str(Chars("100.125"))] :
        who \in {<<Chars("A"), Chars("john smith")>>, <<Chars("B"), Chars("JANE doe")>>},
        p \in Periods }

ReadBatches ==
    { [cols |-> RequiredCols \cup {"member_id"}, rows |-> r] : r \in SeqsUpTo(ReadRows, MaxRows) }
        \cup { [cols |-> RequiredCols,
                rows |-> <<Row(Str(Chars("A")), Str(p), Str(Chars("john smith")),
                               Str(Chars("100.125")))>>] : p \in Periods }

\* the three records of the scenario: john smith $100 carrier A,
\* JOHN SMITH $50 carrier B, jane doe $30 carrier A, all in 2024-06
ScenarioBatch ==
    << Row(Str(Chars("A")), Str(DefaultPeriod), Str(Chars("john smith")), Num(Fin(100000))),
       Row(Str(Chars("B")), Str(DefaultPeriod), Str(Chars("JOHN SMITH")), Num(Fin(50000))),
       Row(Str(Chars("A")), Str(DefaultPeriod), Str(Chars("jane doe")), Num(Fin(30000))) >>

ScenarioBatches ==
    { [cols |-> RequiredCols, rows |-> r] :
        r \in SeqsUpTo({ScenarioBatch[i] : i \in 1..3}, MaxScenarioRows) }

\* a complete record, and the values each of its columns takes in turn
FieldCols == RequiredCols \cup {"agency_name", "transaction_type", "member_id", "enrollment_date"}

BaseRow ==
    [c \in FieldCols |->
        CASE c = "carrier_name"      -> Str(Chars("A"))
          [] c = "commission_period" -> Str(DefaultPeriod)
          [] c = "agent_name"        -> Str(Chars("john smith"))
          [] c = "commission_amount" -> Num(Fin(100000))
          [] c = "agency_name"       -> Str(Chars("Acme"))
          [] c = "transaction_type"  -> Str(Chars("new"))
          [] c = "member_id"         -> Str(Chars("M1"))
          [] OTHER                   -> Str(Chars("2024-06-15"))]

FieldValues(c) ==
    CASE c = "carrier_name"      -> {Null}
      [] c = "commission_period" -> {Null}
      [] c = "agent_name"        -> {Null, Str(Chars("   ")), Str(Chars(" mary  ANN "))}
      [] c = "commission_amount" ->
            {Null, Num(NaN), Num(PosInf), Str(Chars("$(1,234.50)")), Str(Chars("-$5")),
             Str(Chars("-Infinity")), Str(Chars("nan")), Str(Chars("12.50 USD"))}
      [] c = "agency_name"       -> {Null, Str(Chars("acme  corp"))}
      [] c = "transaction_type"  -> {Null, Str(Chars("RENEW")), Str(Chars("New Enrollment")),
                                     Num(Fin(1000))}
      [] c = "member_id"         -> {Null, Str(Chars(" a-1 ")), Num(Fin(12500))}
      [] OTHER                   -> {Null, Str(Chars("06/07/2024")), Str(Chars("31/01/2024")),
                                     Str(Chars("2024-02-30"))}

\* the complete record and every record that differs from it in one column
FieldRows ==
    {BaseRow} \cup {[BaseRow EXCEPT ![c] = v] : <<c, v>> \in
                       UNION {{<<c, v>> : v \in FieldValues(c)} : c \in FieldCols}}

\* the complete record in a batch that lacks one of the columns
SchemaBatches ==
    { [cols |-> FieldCols \ {c}, rows |-> <<[d \in FieldCols \ {c} |-> BaseRow[d]]>>] :
        c \in FieldCols }

FieldBatches ==
    { [cols |-> FieldCols, rows |-> r] : r \in SeqsUpTo(FieldRows, MaxRows) }
        \cup SchemaBatches

\* amount texts with the number each denotes (in thousandths): digits with
\* optional thousands commas and decimals, an optional '$', and a sign
\* written as a leading '-', a leading '-$' or enclosing parentheses
AmountIntParts ==
    { [text |-> Chars("0"), value |-> 0], [text |-> Chars("7"), value |-> 7000],
      [text |-> Chars("100"), value |-> 100000],
      [text |-> Chars("1,234"), value |-> 1234000],
      [text |-> Chars("1,234,567"), value |-> 1234567000] }

AmountDecParts ==
    { [text |-> <<>>, value |-> 0], [text |-> Chars(".5"), value |-> 500],
      [text |-> Chars(".50"), value |-> 500], [text |-> Chars(".125"), value |-> 125] }

AmountForms == {"plain", "$", "-", "-$", "()", "($)", "$()"}

AmountText(form, body) ==
    CASE form = "plain" -> body
      [] form = "$"     -> <<"$">> \o body
      [] form = "-"     -> <<"-">> \o body
      [] form = "-$"    -> <<"-", "$">> \o body
      [] form = "()"    -> <<"(">> \o body \o <<")">>
      [] form = "($)"   -> <<"(", "$">> \o body \o <<")">>
      [] OTHER          -> <<"$", "(">> \o body \o <<")">>

AmountCases ==
    { [cell  |-> Str(AmountText(f, i.text \o d.text)),
       value |-> (IF f \in {"plain", "$"} THEN 1 ELSE -1) * (i.value + d.value)] :
        f \in AmountForms, i \in AmountIntParts, d \in AmountDecParts }

\* null amounts and texts that are no number
NoAmountCells ==
    { Null, Num(NaN), Str(<<>>), Str(Chars("abc")), Str(Chars("12.50 USD")),
      Str(Chars("--5")), Str(Chars("$")), Str(Chars("()")), Str(Chars("1.2.3")) }

\* one-record batches, one for each amount
AmountBatches ==
    { [cols |-> RequiredCols,
       rows |-> <<Row(Str(Chars("A")), Str(DefaultPeriod), Str(Chars("john smith")), m)>>] :
        m \in {c.cell : c \in AmountCases} \cup NoAmountCells }

\* the texts of a year, a month and a day, with the number each denotes
YearTexts ==
    { [text |-> Chars("2024"), value |-> 2024], [text |-> Chars("2023"), value |-> 2023],
      [text |-> Chars("0999"), value |-> 999] }

MonthTexts ==
    { [text |-> Chars("01"), value |-> 1], [text |-> Chars("02"), value |-> 2],
      [text |-> Chars("6"), value |-> 6], [text |-> Chars("12"), value |-> 12],
      [text |-> Chars("13"), value |-> 13] }

DayTexts ==
    { [text |-> Chars("01"), value |-> 1], [text |-> Chars("7"), value |-> 7],
      [text |-> Chars("29"), value |-> 29], [text |-> Chars("30"), value |-> 30],
      [text |-> Chars("31"), value |-> 31], [text |-> Chars("32"), value |-> 32] }

DateLayouts == {"YYYY-MM-DD", "MM/DD/YYYY", "DD-MM-YYYY", "YYYY/MM/DD"}

DateText(layout, y, m, d) ==
    CASE layout = "YYYY-MM-DD" -> y \o <<"-">> \o m \o <<"-">> \o d
      [] layout = "MM/DD/YYYY" -> m \o <<"/">> \o d \o <<"/">> \o y
      [] layout = "DD-MM-YYYY" -> d \o <<"-">> \o m \o <<"-">> \o y
      [] OTHER                 -> y \o <<"/">> \o m \o <<"/">> \o d

\* date texts in the four layouts with the ISO date each denotes, null when
\* the numbers name no calendar date
DateCases ==
    { [input    |-> Str(DateText(l, y.text, m.text, d.text)),
       expected |-> IF m.value <= 12 /\ d.value <= DaysIn(y.value, m.value)
                    THEN Str(IsoDate(y.value, m.value, d.value))
                    ELSE Null] :
        l \in DateLayouts, y \in YearTexts, m \in MonthTexts, d \in DayTexts }

\* datetime values with their ISO date
DateTimeCases ==
    { [input |-> DateTime(y.value, m, d), expected |-> Str(IsoDate(y.value, m, d))] :
        y \in YearTexts, m \in {1, 12}, d \in {1, 28} }

\* null values, texts in no layout and a number
NoDateCells ==
    { Null, Num(NaN), Num(Fin(1000)), Str(<<>>), Str(Chars("abc")), Str(Chars(" 2024-06-15")),
      Str(Chars("2024-06-15 ")), Str(Chars("15.06.2024")), Str(Chars("2024-06")),
      Str(Chars("2024-06-15 10:00:00")), Str(Chars("06/15/24")), Str(Chars("2024-06/15")) }

DateInputs ==
    {c.input : c \in DateCases} \cup {c.input : c \in DateTimeCases} \cup NoDateCells

(***************************************************************************)
(* State                                                                   *)
(***************************************************************************)
VARIABLES
    frames,       \* the DataFrame objects: frames[1] is the caller's batch
    normalizers,  \* the DataNormalizer objects: data, normalized_data (0: None)
    last_call,    \* the last normalize() call of the newest normalizer: how
                  \* it ended, and whether its input was a normalize output
    normed,       \* the frames that hold an output of normalize
    analyzer,     \* PerformanceAnalyzer.data (0: no analyzer yet)
    result,       \* the last calculate_top_performers call
    report,       \* the last get_period_summary or get_carrier_statistics call:
                  \* value holds the summary, or the rows of the statistics
    matcher,      \* the last call of a name_matcher function; built holds
                  \* the clusters a group_similar_names run has formed
    date_call     \* the last call of standardize_date of a parser

vars ==
    <<frames, normalizers, last_call, normed, analyzer, result, report, matcher, date_call>>

NoCall == [status |-> "none", pre_normalized |-> FALSE]

NoResult == [status |-> "none", n |-> 0, period |-> <<>>, entries |-> <<>>]

NoReport == [op |-> "none", period |-> <<>>, status |-> "none", value |-> <<>>]

NoDate == [input |-> Null, done |-> FALSE, value |-> Null]

NoMatch ==
    [op |-> "none", names |-> <<>>, threshold |-> 0, done |-> FALSE, value |-> FALSE,
     built |-> <<>>]

InitWith(batches) ==
    /\ \E b \in batches : frames = <<b>>
    /\ normalizers = <<>>
    /\ last_call = NoCall
    /\ normed = {}
    /\ analyzer = 0
    /\ result = NoResult
    /\ report = NoReport
    /\ matcher = NoMatch
    /\ date_call = NoDate

Init == InitWith(RankBatches)

InitScenario == InitWith(ScenarioBatches)

InitFields == InitWith(FieldBatches)

InitAmounts == InitWith(AmountBatches)

InitReads == InitWith(ReadBatches)

\* period_data written back to self.data instead of to a copy
period_frame_alias(src, fresh) == src

\* period_data = self.data[...].copy(): a fresh frame, local to the call,
\* that is on no object's field (0)
period_frame(src, fresh) == fresh

\* the frames after the frame id has been given the value fr; the local
\* frame 0 is dropped when the call ends
store(fs, id, fr) == IF id = 0 THEN fs ELSE [fs EXCEPT ![id] = fr]

\* df.copy(): a new frame object holding the same cells
copy(fs, src) == Append(fs, fs[src])

\* self.data = df: the normalizer works on the caller's own object
init_data_alias(src, fresh) == src

\* self.data = df.copy(): the normalizer works on the fresh copy, not on src
init_data(src, fresh) == fresh

\* DataNormalizer(df): self.data = df.copy(), self.normalized_data = None;
\* the first normalizer is built on the caller's batch, a later one on the
\* batch the one before returned
NewNormalizer ==
    /\ analyzer = 0
    /\ Len(normalizers) < MaxNormalizers
    /\ normalizers # <<>> => normalizers[Len(normalizers)].normalized_data # 0
    /\ LET src == IF normalizers = <<>> THEN 1
                  ELSE normalizers[Len(normalizers)].normalized_data
       IN  /\ {"agent_name", "commission_amount"} \subseteq frames[src].cols
           /\ frames' = copy(frames, src)
           /\ normalizers' = Append(normalizers,
                                    [data |-> init_data(src, Len(frames')),
                                     normalized_data |-> 0])
           /\ normed' = IF src \in normed THEN normed \cup {Len(frames')} ELSE normed
    /\ last_call' = NoCall
    /\ UNCHANGED <<analyzer, result, report, matcher, date_call>>

\* normalizer.normalize() on the newest normalizer
Normalize ==
    /\ analyzer = 0
    /\ normalizers # <<>>
    /\ LET k    == Len(normalizers)
           self == normalizers[k]
       IN  \E r \in {normalize(frames[self.data])} :
           /\ frames' = [frames EXCEPT ![self.data] = r.fr]
           /\ normalizers' =
                 IF r.ok THEN [normalizers EXCEPT ![k].normalized_data = self.data]
                 ELSE normalizers
           /\ last_call' = [status |-> IF r.ok THEN "ok" ELSE "raised",
                            pre_normalized |-> self.data \in normed]
           /\ normed' = IF r.ok THEN normed \cup {self.data} ELSE normed
    /\ UNCHANGED <<analyzer, result, report, matcher, date_call>>

\* PerformanceAnalyzer(normalized_data): self.data = data, the batch that
\* the normalizer of the caller's batch returned
NewAnalyzer ==
    /\ analyzer = 0
    /\ Len(normalizers) = 1
    /\ normalizers[1].normalized_data # 0
    /\ analyzer' = normalizers[1].normalized_data
    /\ UNCHANGED <<frames, normalizers, last_call, normed, result, report, matcher, date_call>>

\* analyzer.calculate_top_performers(n, period)
CalculateTopPerformers ==
    /\ analyzer # 0
    /\ \E n \in NSet, period \in Periods :
          \E r \in {calculate_top_performers(frames[analyzer], n, period)} :
              /\ result' = [status |-> r.status, n |-> n, period |-> period,
                            entries |-> r.entries]
              /\ frames' = store(frames, period_frame(analyzer, 0),
                                 numeric_period_data(frames[analyzer], period))
    /\ UNCHANGED <<normalizers, last_call, normed, analyzer, report, matcher, date_call>>

\* analyzer.get_period_summary(period), called when the clock reads now
GetPeriodSummary ==
    /\ analyzer # 0
    /\ \E period \in Periods, now \in Clock :
          \E r \in {get_period_summary(frames[analyzer], period, now)} :
              /\ report' = [op |-> "get_period_summary", period |-> period,
                            status |-> r.status,
                            value |-> IF r.status = "returned" THEN <<r.value>> ELSE <<>>]
              /\ frames' = store(frames, period_frame(analyzer, 0),
                                 numeric_period_data(frames[analyzer], period))
    /\ UNCHANGED <<normalizers, last_call, normed, analyzer, result, matcher, date_call>>

\* analyzer.get_carrier_statistics(period)
GetCarrierStatistics ==
    /\ analyzer # 0
    /\ \E period \in Periods :
          \E r \in {get_carrier_statistics(frames[analyzer], period)} :
              /\ report' = [op |-> "get_carrier_statistics", period |-> period,
                            status |-> r.status, value |-> r.value]
              /\ frames' = store(frames, period_frame(analyzer, 0),
                                 numeric_period_data(frames[analyzer], period))
    /\ UNCHANGED <<normalizers, last_call, normed, analyzer, result, matcher, date_call>>

Next ==
    \/ NewNormalizer
    \/ Normalize
    \/ NewAnalyzer
    \/ CalculateTopPerformers

Spec == Init /\ [][Next]_vars

SpecScenario == InitScenario /\ [][Next]_vars

\* the analyzer with its two companion read operations
NextReads ==
    \/ Next
    \/ GetPeriodSummary
    \/ GetCarrierStatistics

SpecReads == InitReads /\ [][NextReads]_vars

\* the normalizer alone, on batches of complete records
NextNormalizer ==
    \/ NewNormalizer
    \/ Normalize

SpecNormalizer == InitFields /\ [][NextNormalizer]_vars

\* the normalizer on one-record batches, one for each amount text
SpecAmounts == InitAmounts /\ [][NextNormalizer]_vars

\* a call of a name_matcher function with its arguments, not yet evaluated
MatcherCall(op, names, threshold) ==
    [op |-> op, names |-> names, threshold |-> threshold, done |-> FALSE, value |-> FALSE,
     built |-> <<>>]

\* no batch, no normalizer, no analyzer: the name matcher is used alone, in
\* one call on a name of KeyPool, on two names of NamePool or on a list of
\* names of GroupPool or of MatchPool
InitMatcher ==
    /\ frames = <<>>
    /\ normalizers = <<>>
    /\ last_call = NoCall
    /\ normed = {}
    /\ analyzer = 0
    /\ result = NoResult
    /\ report = NoReport
    /\ date_call = NoDate
    /\ \/ \E name \in KeyPool : matcher = MatcherCall("normalize_name", <<name>>, 0)
       \/ \E threshold \in Thresholds :
             \/ \E name1 \in NamePool, name2 \in NamePool :
                   matcher = MatcherCall("are_similar_names", <<name1, name2>>, threshold)
             \/ \E names \in SeqsUpTo(MatchPool, MaxNames) :
                   matcher = MatcherCall("match_names", names, threshold)
             \/ \E names \in SeqsUpTo(GroupPool, MaxNames) :
                   matcher = MatcherCall("group_similar_names", names, threshold)

\* normalize_name(name) returns
NormalizeName ==
    /\ matcher.op = "normalize_name"
    /\ ~matcher.done
    /\ matcher' = [matcher EXCEPT !.done = TRUE, !.value = normalize_name(matcher.names[1])]
    /\ UNCHANGED <<frames, normalizers, last_call, normed, analyzer, result, report, date_call>>

\* match_names(names, threshold) returns
MatchNames ==
    /\ matcher.op = "match_names"
    /\ ~matcher.done
    /\ matcher' = [matcher EXCEPT
                      !.done = TRUE,
                      !.value = match_names(matcher.names, matcher.threshold)]
    /\ UNCHANGED <<frames, normalizers, last_call, normed, analyzer, result, report, date_call>>

\* are_similar_names(name1, name2, threshold) returns
AreSimilarNames ==
    /\ matcher.op = "are_similar_names"
    /\ ~matcher.done
    /\ matcher' = [matcher EXCEPT
                      !.done = TRUE,
                      !.value = are_similar_names(matcher.names[1], matcher.names[2],
                                                  matcher.threshold)]
    /\ UNCHANGED <<frames, normalizers, last_call, normed, analyzer, result, report, date_call>>

\* group_similar_names(names, threshold) returns
GroupSimilarNames ==
    /\ matcher.op = "group_similar_names"
    /\ ~matcher.done
    /\ \E run \in group_similar_names(matcher.names, matcher.threshold) :
          matcher' = [matcher EXCEPT !.done = TRUE, !.value = run.groups,
                                     !.built = run.built]
    /\ UNCHANGED <<frames, normalizers, last_call, normed, analyzer, result, report, date_call>>

NextMatcher ==
    \/ NormalizeName
    \/ AreSimilarNames
    \/ MatchNames
    \/ GroupSimilarNames

SpecMatcher == InitMatcher /\ [][NextMatcher]_vars

\* no batch: a parser's standardize_date is called once on a date value
InitParser ==
    /\ frames = <<>>
    /\ normalizers = <<>>
    /\ last_call = NoCall
    /\ normed = {}
    /\ analyzer = 0
    /\ result = NoResult
    /\ report = NoReport
    /\ matcher = NoMatch
    /\ \E date_value \in DateInputs :
          date_call = [input |-> date_value, done |-> FALSE, value |-> Null]

\* standardize_date(date_value) returns
StandardizeDate ==
    /\ ~date_call.done
    /\ date_call.input \in DateInputs
    /\ \E value \in standardize_date(date_call.input) :
          date_call' = [date_call EXCEPT !.done = TRUE, !.value = value]
    /\ UNCHANGED <<frames, normalizers, last_call, normed, analyzer, result, report, matcher>>

NextParser == StandardizeDate

SpecParser == InitParser /\ [][NextParser]_vars

(***************************************************************************)
(* Claims about calculate_top_performers                                   *)
(***************************************************************************)
\* a calculate_top_performers call has ended
Called == analyzer # 0 /\ result.status # "none"

\* the agents of the analyzer's batch that have a row in period p
PeriodAgents(p) ==
    LET rows == frames[analyzer].rows
    IN  {rows[i]["agent_name"] : i \in {j \in 1..Len(rows) :
                                          rows[j]["commission_period"] = Str(p)}}

NumAgents == Cardinality(PeriodAgents(result.period))

\* the placeholder entry the specification describes for position i
ExpectedPlaceholder(i) ==
    [agent_name        |-> Str(Chars("Agent_") \o IntToStr(i)),
     total_commission  |-> Fin(0),
     avg_commission    |-> Fin(0),
     transaction_count |-> 0,
     carriers          |-> Chars("N/A")]

\* C1: for every n >= 1, every period and every batch produced by normalize,
\* calculate_top_performers returns (does not raise) exactly n entries, and
\* every agent_name and every total_commission in them is non-null.
C1_ReturnsNEntriesNonNull ==
    Called =>
        /\ result.status = "returned"
        /\ Len(result.entries) = result.n
        /\ \A i \in 1..Len(result.entries) :
              /\ ~IsNA(result.entries[i].agent_name)
              /\ ~IsNaN(result.entries[i].total_commission)

\* C2: when the period contains no agent at all, calculate_top_performers
\* returns n placeholders Agent_1..Agent_n with total 0, average 0, count 0
\* and carriers 'N/A'.
C2_EmptyPeriodAllPlaceholders ==
    (Called /\ NumAgents = 0) =>
        /\ result.status = "returned"
        /\ result.entries = [i \in 1..result.n |-> ExpectedPlaceholder(i)]

\* C3: with k distinct agents in the period and 1 <= k < n, the leaderboard
\* holds the k real agents followed by the n-k placeholders
\* Agent_{k+1}..Agent_n; with k >= n it holds no placeholder.
C3_PaddingFillsTheDeficit ==
    (Called /\ NumAgents >= 1) =>
        /\ result.status = "returned"
        /\ Len(result.entries) = result.n
        /\ LET k == IF NumAgents < result.n THEN NumAgents ELSE result.n
           IN  /\ \A i \in 1..k : result.entries[i].agent_name \in PeriodAgents(result.period)
               /\ \A i, j \in 1..k :
                     i # j => result.entries[i].agent_name # result.entries[j].agent_name
               /\ \A i \in (k + 1)..result.n : result.entries[i] = ExpectedPlaceholder(i)

\* C4: every leaderboard that calculate_top_performers returns has a
\* non-increasing total_commission sequence, placeholders included: each
\* value is >= its successor.
C4_ReturnedIsNonIncreasing ==
    (Called /\ result.status = "returned") =>
        \A i \in 1..(Len(result.entries) - 1) :
            FGeq(result.entries[i].total_commission, result.entries[i + 1].total_commission)

\* C5: the 'Sort error' of the final verification is unreachable: for no
\* normalized batch, period and n >= 1 does calculate_top_performers raise it.
C5_SortErrorUnreachable == Called => result.status # "ValueError"

\* the three-record scenario has been normalized and ranked with n = 2
C6_Witness ==
    /\ frames[1].rows = ScenarioBatch
    /\ Called
    /\ result.n = 2
    /\ result.period = DefaultPeriod
    /\ result.status = "returned"

\* C6: on the three-record scenario normalize makes both John records
\* 'John Smith', and calculate_top_performers(n=2, period='2024-06') yields
\* John Smith (150, 75, 2, 'A, B') followed by Jane Doe (30, 30, 1, 'A').
C6_ScenarioLeaderboard ==
    (normalizers # <<>> /\ frames[1].rows = ScenarioBatch) =>
        /\ normalizers[1].normalized_data # 0 =>
              LET out == frames[normalizers[1].normalized_data].rows
              IN  /\ out[1]["agent_name"] = Str(Chars("John Smith"))
                  /\ out[2]["agent_name"] = Str(Chars("John Smith"))
        /\ (Called /\ result.n = 2 /\ result.period = DefaultPeriod) =>
              /\ result.status = "returned"
              /\ result.entries =
                    << [agent_name        |-> Str(Chars("John Smith")),
                        total_commission  |-> Fin(150000),
                        avg_commission    |-> Fin(75000),
                        transaction_count |-> 2,
                        carriers          |-> Chars("A, B")],
                       [agent_name        |-> Str(Chars("Jane Doe")),
                        total_commission  |-> Fin(30000),
                        avg_commission    |-> Fin(30000),
                        transaction_count |-> 1,
                        carriers          |-> Chars("A")] >>

(***************************************************************************)
(* Claims about DataNormalizer                                             *)
(***************************************************************************)
\* the frame the newest normalizer works on
NormalizerData == frames[normalizers[Len(normalizers)].data]

\* normalize has returned
Normalized == normalizers # <<>> /\ last_call.status = "ok"

\* normalize has returned on a batch that was itself a normalize output and
\* whose first normalization changed the caller's values
C7_Witness ==
    /\ Normalized
    /\ last_call.pre_normalized
    /\ NormalizerData # frames[1]

\* C7: normalize is idempotent: a normalize call on a batch that is an
\* output of normalize (a second call on the same instance, or a new
\* DataNormalizer built on the result) returns and leaves every value of
\* every record as it was.
C7_NormalizeIdempotent ==
    [][(Normalize /\ normalizers[Len(normalizers)].data \in normed)
          => (last_call'.status = "ok" /\ frames' = frames)]_vars

\* C8: after normalize succeeds every record has a non-null carrier_name,
\* commission_period, agent_name and commission_amount, whatever the input
\* held in those columns.
C8_RequiredFieldsNonNull ==
    Normalized =>
        \A i \in 1..Len(NormalizerData.rows) :
            \A c \in RequiredCols : ~IsNA(NormalizerData.rows[i][c])

\* C9: after normalize succeeds every commission_amount is a finite number:
\* never nan, never an infinity, never a non-numeric value.
C9_AmountsFinite ==
    Normalized =>
        \A i \in 1..Len(NormalizerData.rows) :
            /\ NormalizerData.rows[i]["commission_amount"].t = "num"
            /\ IsFinite(NormalizerData.rows[i]["commission_amount"].f)

\* normalize has run, returning or raising, and has changed the values of
\* the normalizer's own frame
C10_Witness ==
    /\ normalizers # <<>>
    /\ last_call.status \in {"ok", "raised"}
    /\ NormalizerData # frames[1]

\* C10: constructing a DataNormalizer and calling normalize, successfully or
\* not, any number of times never changes the caller's batch: it holds the
\* rows, columns and values it held before.
C10_CallerBatchUnchanged == [][frames'[1] = frames[1]]_vars

\* a required column is absent from the frame the newest normalizer holds
MissingRequired == RequiredCols \ NormalizerData.cols # {}

\* C11: normalize fails (raises, returns no batch, leaves normalized_data
\* unset) whenever one of the four required columns is absent, and never
\* fails because of missing or malformed values in the columns that are
\* present; a missing commission amount becomes 0.0 instead.
C11_FailsOnlyOnMissingColumn ==
    [][Normalize =>
          /\ (last_call'.status = "raised") <=> MissingRequired
          /\ MissingRequired => normalizers' = normalizers
          /\ ~MissingRequired =>
                \A i \in 1..Len(NormalizerData.rows) :
                    IsNA(NormalizerData.rows[i]["commission_amount"]) =>
                        NormalizerData'.rows[i]["commission_amount"] = Num(Fin(0))]_vars

\* normalize has returned on the batch whose amount is '$(1,234.50)'
C12_Witness ==
    /\ Normalized
    /\ frames[1].rows[1]["commission_amount"] = Str(Chars("$(1,234.50)"))
    /\ NormalizerData.rows[1]["commission_amount"] = Num(Fin(-1234500))

\* C12: the amount cleaner never raises; for every amount text built from an
\* optional '$', thousands commas, digits with an optional decimal part and
\* a sign written as a leading '-', a leading '-$' or enclosing parentheses
\* it yields the signed number the text denotes ('$(1,234.50)' gives
\* -1234.50, '(100)' gives -100), and for a null or unparsable amount 0.0.
C12_AmountCleanerExact ==
    (normalizers # <<>> /\ last_call.status # "none") =>
        /\ last_call.status = "ok"
        /\ \A c \in AmountCases :
              frames[1].rows[1]["commission_amount"] = c.cell =>
                  NormalizerData.rows[1]["commission_amount"] = Num(Fin(c.value))
        /\ frames[1].rows[1]["commission_amount"] \in NoAmountCells =>
              NormalizerData.rows[1]["commission_amount"] = Num(Fin(0))
        /\ frames[1].rows[1]["commission_amount"] = Str(Chars("(100)")) =>
              NormalizerData.rows[1]["commission_amount"] = Num(Fin(-100000))

\* the text s is blank: empty or whitespace only
IsBlank(s) == \A i \in 1..Len(s) : IsSpace(s[i])

\* out is the whitespace-collapsed form of inp with every word capitalized:
\* the same words in the same order, separated by single spaces, each with
\* its first letter in upper case and the others in lower case
IsCollapsedCapitalized(inp, out) ==
    LET w == Split(inp)
        o == Split(out)
    IN  /\ out = Join(o, <<" ">>)
        /\ Len(o) = Len(w)
        /\ \A k \in 1..Len(w) :
              /\ Len(o[k]) = Len(w[k])
              /\ \A j \in 1..Len(w[k]) :
                    /\ LowerChar(o[k][j]) = LowerChar(w[k][j])
                    /\ IF j = 1 THEN o[k][j] \notin LowerSet ELSE o[k][j] \notin UpperSet

\* normalize has returned on a batch holding a blank agent_name and one
\* with surrounding and doubled spaces and mixed case
C13_Witness ==
    /\ Normalized
    /\ \E i \in 1..Len(frames[1].rows) :
          frames[1].rows[i]["agent_name"] = Str(Chars("   "))
    /\ \E i \in 1..Len(frames[1].rows) :
          /\ frames[1].rows[i]["agent_name"] = Str(Chars(" mary  ANN "))
          /\ NormalizerData.rows[i]["agent_name"] = Str(Chars("Mary Ann"))

\* C13: after normalize, agent_name is never null or empty: a null, blank
\* or whitespace-only agent_name has become 'Unknown Agent', and every other
\* agent_name its whitespace-collapsed form with each word capitalized.
C13_AgentNameCanonical ==
    Normalized =>
        \A i \in 1..Len(NormalizerData.rows) :
            LET inp == frames[1].rows[i]["agent_name"]
                out == NormalizerData.rows[i]["agent_name"]
            IN  /\ out.t = "str"
                /\ out.s # <<>>
                /\ IF IsNA(inp) \/ IsBlank(inp.s)
                   THEN out.s = Chars("Unknown Agent")
                   ELSE IsCollapsedCapitalized(inp.s, out.s)

(***************************************************************************)
(* Claims about the name matcher                                           *)
(***************************************************************************)
\* are_similar_names('Acme Corp', 'acme', 0.85) has been called
C14_Witness ==
    /\ matcher.op = "are_similar_names"
    /\ matcher.done
    /\ matcher.names = <<Str(Chars("Acme Corp")), Str(Chars("acme"))>>
    /\ matcher.threshold = 85
    /\ matcher.value = TRUE

\* C14: are_similar_names(a, b, t) is true exactly when both normalized
\* names are non-empty and the normalized forms are equal, or one is a
\* substring of the other, or the token set of one is contained in the
\* token set of the other, or their sequence-similarity ratio is >= t; it is
\* false when a name is empty or blank.  are_similar('Acme Corp', 'acme',
\* 0.85) is true and are_similar('', 'anything', 0.85) is false.
C14_SimilarByLayers ==
    (matcher.op = "are_similar_names" /\ matcher.done) =>
        LET a  == matcher.names[1]
            b  == matcher.names[2]
            n1 == normalize_name(a)
            n2 == normalize_name(b)
        IN  /\ matcher.value =
                  (/\ n1 # <<>>
                   /\ n2 # <<>>
                   /\ \/ n1 = n2
                      \/ IsSubstring(n1, n2) \/ IsSubstring(n2, n1)
                      \/ Words(n1) \subseteq Words(n2) \/ Words(n2) \subseteq Words(n1)
                      \/ ratio_at_least(n1, n2, matcher.threshold))
            /\ (IsNA(a) \/ IsNA(b) \/ IsBlank(a.s) \/ IsBlank(b.s)) => matcher.value = FALSE
            /\ (a = Str(Chars("Acme Corp")) /\ b = Str(Chars("acme"))
                   /\ matcher.threshold = 85) => matcher.value = TRUE
            /\ (a = Str(<<>>) /\ b = Str(Chars("anything"))
                   /\ matcher.threshold = 85) => matcher.value = FALSE

\* C15: the clusters group_similar_names returns partition its input: every
\* distinct input name, whatever its value, is in exactly one cluster of the
\* returned mapping (so no cluster built during the run is missing from it).
C15_ClustersPartitionInput ==
    (matcher.op = "group_similar_names" /\ matcher.done) =>
        \A i \in 1..Len(matcher.names) :
            Cardinality({k \in DOMAIN matcher.value :
                            matcher.names[i] \in matcher.value[k]}) = 1

\* C16: the canonical label of every cluster group_similar_names returns is
\* a member of the cluster with the fewest whitespace-delimited tokens and,
\* among those members, the shortest length.
C16_CanonicalIsLeastMember ==
    (matcher.op = "group_similar_names" /\ matcher.done) =>
        \A k \in DOMAIN matcher.value :
            /\ k \in matcher.value[k]
            /\ \A x \in matcher.value[k] : ~IsNA(x) => KeyLeq(k, x)

(***************************************************************************)
(* Claims about the read operations of PerformanceAnalyzer                 *)
(***************************************************************************)
\* the batch the analyzer was built on: the normalized form of the caller's
\* batch
FirstBatch == normalize(frames[1]).fr

\* a read operation of the analyzer is called
AnalyzerRead ==
    \/ CalculateTopPerformers
    \/ GetPeriodSummary
    \/ GetCarrierStatistics

\* the three read operations have been called, for the two periods, on a
\* batch that has rows in both periods
C18_Witness ==
    /\ Called
    /\ result.status = "returned"
    /\ result.period = OtherPeriod
    /\ report.op = "get_carrier_statistics"
    /\ report.status = "returned"
    /\ report.period = DefaultPeriod
    /\ report.value # <<>>
    /\ PeriodAgents(DefaultPeriod) # {}
    /\ PeriodAgents(OtherPeriod) # {}

\* C18: calculate_top_performers, get_period_summary and
\* get_carrier_statistics leave the analyzer's batch unchanged (no row,
\* column or value modified), so in any sequence of calls for various
\* periods and n each call returns what it would return as the first call
\* on the batch.
C18_ReadsLeaveBatchUnchanged ==
    /\ [][AnalyzerRead => frames' = frames]_vars
    /\ [](Called =>
            LET r == calculate_top_performers(FirstBatch, result.n, result.period)
            IN  result.status = r.status /\ result.entries = r.entries)
    /\ [](report.op = "get_period_summary" =>
            LET r == get_period_summary(FirstBatch, report.period,
                                        IF report.status = "returned"
                                        THEN report.value[1].generated_at ELSE <<>>)
            IN  /\ report.status = r.status
                /\ report.status = "returned" => report.value = <<r.value>>)
    /\ [](report.op = "get_carrier_statistics" =>
            LET r == get_carrier_statistics(FirstBatch, report.period)
            IN  report.status = r.status /\ report.value = r.value)

(***************************************************************************)
(* Claims about the aggregation and the truncation of the leaderboard      *)
(***************************************************************************)
\* the rows of the analyzer's batch of period p and agent a
RefRows(p, a) ==
    SelectSeq(frames[analyzer].rows,
              LAMBDA r : r["commission_period"] = Str(p) /\ r["agent_name"] = a)

\* the sum of the amounts of rows, from the first to the last
RECURSIVE RefSum(_)
RefSum(rows) ==
    IF rows = <<>> THEN Fin(0)
    ELSE FAdd(RefSum(SubSeq(rows, 1, Len(rows) - 1)), rows[Len(rows)]["commission_amount"].f)

\* the texts of S in increasing order
RECURSIVE RefSorted(_)
RefSorted(S) ==
    IF S = {} THEN <<>>
    ELSE LET least == CHOOSE x \in S : \A y \in S : x = y \/ StrLess(x, y)
         IN  <<least>> \o RefSorted(S \ {least})

\* the carriers of rows: sorted, deduplicated, joined by ', '
RefCarriers(rows) ==
    Join(RefSorted({rows[i]["carrier_name"].s : i \in 1..Len(rows)}), <<",", " ">>)

\* the number of real agents on the returned leaderboard
RealCount == Min(NumAgents, result.n)

\* x is s / count to two decimals: a multiple of a cent, at most half a
\* cent away; a non-finite s is kept
IsRounded(x, s, count) ==
    IF IsFinite(s)
    THEN /\ IsFinite(x)
         /\ x.v % 10 = 0
         /\ 2 * (x.v * count - s.v) <= 10 * count
         /\ 2 * (s.v - x.v * count) <= 10 * count
    ELSE x = s

\* C19 as stated: every real (non-placeholder) leaderboard entry equals the
\* aggregate over exactly the rows of the requested period and of the
\* entry's agent: total_commission is the sum of their amounts,
\* transaction_count their number, avg_commission the total divided by the
\* count, carriers the sorted, deduplicated, ', '-joined carrier names; an
\* agent with rows only in other periods does not appear.
C19_EntriesAreExactAggregates ==
    (Called /\ result.status = "returned") =>
        \A i \in 1..RealCount :
            LET e    == result.entries[i]
                rows == RefRows(result.period, e.agent_name)
            IN  /\ e.agent_name \in PeriodAgents(result.period)
                /\ e.total_commission = RefSum(rows)
                /\ e.transaction_count = Len(rows)
                /\ IF IsFinite(RefSum(rows))
                   THEN /\ IsFinite(e.avg_commission)
                        /\ e.avg_commission.v * Len(rows) = RefSum(rows).v
                   ELSE e.avg_commission = RefSum(rows)
                /\ e.carriers = RefCarriers(rows)

\* a leaderboard has been returned with an agent of two records from two
\* carriers, the second record's carrier sorting first
C19_Witness ==
    /\ Called
    /\ result.status = "returned"
    /\ result.entries[1].transaction_count = 2
    /\ result.entries[1].carriers = Chars("A, B")
    /\ frames[analyzer].rows[1]["carrier_name"] = Str(Chars("B"))

\* C19 amended: as stated, but total_commission is the sum rounded to two
\* decimals and avg_commission the sum divided by the count, rounded to two
\* decimals.
C19_EntriesAreRoundedAggregates ==
    (Called /\ result.status = "returned") =>
        /\ \A i \in 1..RealCount :
              LET e    == result.entries[i]
                  rows == RefRows(result.period, e.agent_name)
              IN  /\ e.agent_name \in PeriodAgents(result.period)
                  /\ IsRounded(e.total_commission, RefSum(rows), 1)
                  /\ e.transaction_count = Len(rows)
                  /\ IsRounded(e.avg_commission, RefSum(rows), Len(rows))
                  /\ e.carriers = RefCarriers(rows)
        /\ \A i, j \in 1..RealCount :
              i # j => result.entries[i].agent_name # result.entries[j].agent_name

\* a call has ended on a period with more than n agents whose totals differ
C20_Witness ==
    /\ Called
    /\ NumAgents > result.n
    /\ result.status = "returned"
    /\ \E a \in PeriodAgents(result.period) :
          FLess(RefSum(RefRows(result.period, a)), result.entries[1].total_commission)

\* C20: when the period contains more than n agents, the returned
\* leaderboard holds exactly n real agents, and no omitted agent has a
\* total_commission (to two decimals, as the leaderboard states totals)
\* strictly greater than that of an included agent.
C20_TopNAreTheLargest ==
    (Called /\ result.status = "returned" /\ NumAgents > result.n) =>
        /\ Len(result.entries) = result.n
        /\ \A i \in 1..result.n :
              result.entries[i].agent_name \in PeriodAgents(result.period)
        /\ \A i, j \in 1..result.n :
              i # j => result.entries[i].agent_name # result.entries[j].agent_name
        /\ \A a \in PeriodAgents(result.period) :
              (\A i \in 1..result.n : result.entries[i].agent_name # a) =>
                  \A i \in 1..result.n :
                      ~FLess(result.entries[i].total_commission,
                             Round2(RefSum(RefRows(result.period, a)), 1))

\* the row of the analyzer's batch in which agent a is first encountered
\* among the rows of period p
FirstRow(p, a) ==
    LET rows == frames[analyzer].rows
    IN  CHOOSE i \in 1..Len(rows) :
            /\ rows[i]["commission_period"] = Str(p) /\ rows[i]["agent_name"] = a
            /\ \A j \in 1..(i - 1) :
                  ~(rows[j]["commission_period"] = Str(p) /\ rows[j]["agent_name"] = a)

\* C21: the leaderboard order is stable on insertion order: of two agents
\* listed with equal total_commission, the one first encountered in the
\* batch ranks higher.
C21_TiesKeepInsertionOrder ==
    (Called /\ result.status = "returned") =>
        \A i, j \in 1..RealCount :
            (/\ i < j
             /\ ~IsNaN(result.entries[i].total_commission)
             /\ result.entries[i].total_commission = result.entries[j].total_commission)
                => FirstRow(result.period, result.entries[i].agent_name)
                       < FirstRow(result.period, result.entries[j].agent_name)

(***************************************************************************)
(* Further claims about DataNormalizer                                     *)
(***************************************************************************)
\* C22: agency_name may be empty after normalization: a record whose input
\* agency_name is blank or null has an empty agency_name in the normalized
\* batch, not the agent sentinel 'Unknown Agent'.
C22_BlankAgencyStaysEmpty ==
    (Normalized /\ "agency_name" \in NormalizerData.cols) =>
        \A i \in 1..Len(NormalizerData.rows) :
            LET inp == frames[1].rows[i]["agency_name"]
                out == NormalizerData.rows[i]["agency_name"]
            IN  (IsNA(inp) \/ IsBlank(inp.s)) =>
                    /\ out # Str(UnknownAgent)
                    /\ IsNA(out) \/ out = Str(<<>>)

\* the targets of the synonyms that the label contains, in any letter case
ContainedTargets(label) ==
    {e[2] : e \in {x \in transaction_mapping : IsSubstring(x[1], Lower(label))}}

\* the ten standard transaction types
StandardTypes == {e[2] : e \in transaction_mapping} \cup {Other}

\* C23: the transaction-type mapper matches case-insensitively by
\* substring: every label that contains an entry of the synonym table (in
\* any letter case, possibly with surrounding text or whitespace) maps to
\* that synonym's target, every label containing none maps to 'Other', and
\* the result is always one of the ten standard types.
C23_TypeMatchedBySubstring ==
    (Normalized /\ "transaction_type" \in NormalizerData.cols) =>
        \A i \in 1..Len(NormalizerData.rows) :
            LET inp == frames[1].rows[i]["transaction_type"]
                out == NormalizerData.rows[i]["transaction_type"]
            IN  /\ out.t = "str"
                /\ out.s \in StandardTypes
                /\ inp.t = "str" =>
                      IF ContainedTargets(inp.s) = {} THEN out.s = Other
                      ELSE out.s \in ContainedTargets(inp.s)

\* the amount text after the currency symbol and the separators are
\* removed and a parenthesized or '-$' negative is rewritten with a '-'
CleanedAmountText(s) ==
    LET v1 == Strip(Remove(Remove(s, "$"), ","))
        v2 == IF StartsWith(v1, <<"(">>) /\ EndsWith(v1, <<")">>)
              THEN <<"-">> \o SubSeq(v1, 2, Len(v1) - 1)
              ELSE v1
    IN  IF StartsWith(v2, <<"-", "$">>) THEN <<"-">> \o SubSeq(v2, 3, Len(v2)) ELSE v2

\* the text without the characters that are no digit, sign or dot
NumericCharsOnly(s) == SelectSeq(s, LAMBDA c : IsDigit(c) \/ c \in {"+", "-", "."})

\* the amount the fallback rule gives for a text: the direct parse of the
\* cleaned text, else the parse of its numeric characters, else 0.0
AmountWithRetry(s) ==
    LET c == CleanedAmountText(s)
        p == ParseFloat(c)
        q == ParseFloat(NumericCharsOnly(c))
    IN  IF p.ok THEN p.f ELSE IF q.ok THEN q.f ELSE Fin(0)

\* C24: when the direct parse of a cleaned amount text fails, the amount
\* cleaner strips every character that is not a digit, a sign or a dot and
\* parses once more, returning 0.0 only if this second parse fails too
\* ('12.50 USD' yields 12.50); a text that parses directly is returned
\* without this stripping.
C24_AmountRetryAfterStripping ==
    (normalizers # <<>> /\ last_call.status # "none"
        /\ frames[1].rows[1]["commission_amount"].t = "str") =>
        /\ last_call.status = "ok"
        /\ NormalizerData.rows[1]["commission_amount"]
              = Num(AmountWithRetry(frames[1].rows[1]["commission_amount"].s))
        /\ frames[1].rows[1]["commission_amount"] = Str(Chars("12.50 USD")) =>
              NormalizerData.rows[1]["commission_amount"] = Num(Fin(12500))

(***************************************************************************)
(* Further claims about the name matcher                                   *)
(***************************************************************************)
\* the legal-entity suffixes
SuffixWords ==
    { Chars("inc"), Chars("incorporated"), Chars("corp"), Chars("corporation"),
      Chars("llc"), Chars("ltd"), Chars("limited") }

\* C25: normalize_name removes a legal-entity suffix wherever it occurs as
\* a whole word, including as the last word of the name, so that
\* 'Acme Corp.' and 'Acme' have equal comparison keys.
C25_SuffixRemovedEverywhere ==
    (matcher.op = "normalize_name" /\ matcher.done) =>
        /\ Words(matcher.value) \cap SuffixWords = {}
        /\ matcher.names[1] \in {Str(Chars("Acme Corp.")), Str(Chars("Acme"))} =>
              matcher.value = Chars("acme")

\* the names assigned to the clusters formed before the k-th
AssignedBefore(k) == UNION {matcher.built[m] : m \in 1..(k - 1)}

\* a run has formed two clusters, the first of the first name and the third,
\* the second of the name in between, which is similar to the third name
\* but not to the first
C26_Witness ==
    /\ matcher.op = "group_similar_names"
    /\ matcher.done
    /\ matcher.names = <<Str(Chars("acme")), Str(Chars("zeta")), Str(Chars("acme zeta"))>>
    /\ matcher.built = << {Str(Chars("acme")), Str(Chars("acme zeta"))}, {Str(Chars("zeta"))} >>

\* C26: group_similar_names is greedy in input order: each cluster consists
\* of the first not-yet-assigned name of the list (its seed) together with
\* every other not-yet-assigned name that is directly similar to that seed;
\* a name assigned to a cluster is in no later cluster.
C26_GreedyInInputOrder ==
    (matcher.op = "group_similar_names" /\ matcher.done) =>
        LET names == matcher.names
            all   == {names[i] : i \in 1..Len(names)}
        IN  /\ \A k \in 1..Len(matcher.built) :
                  \E s \in 1..Len(names) :
                      /\ names[s] \notin AssignedBefore(k)
                      /\ \A j \in 1..(s - 1) : names[j] \in AssignedBefore(k)
                      /\ matcher.built[k] =
                            {names[s]} \cup
                            {x \in all \ AssignedBefore(k) :
                                are_similar_names(names[s], x, matcher.threshold)}
            /\ \A k, m \in 1..Len(matcher.built) :
                  k # m => matcher.built[k] \cap matcher.built[m] = {}
            /\ all = AssignedBefore(Len(matcher.built) + 1)

\* C29: normalize_name is idempotent: normalizing a comparison key gives
\* the same key; consequently match_names, which hands the keys to
\* are_similar_names, reports a pair exactly when are_similar_names holds on
\* the two original names.
C29_NormalizeNameIdempotent ==
    /\ (matcher.op = "normalize_name" /\ matcher.done) =>
          normalize_name(Str(matcher.value)) = matcher.value
    /\ (matcher.op = "match_names" /\ matcher.done) =>
          \A i, j \in 1..Len(matcher.names) :
              i < j =>
                  ((\E k \in 1..Len(matcher.value) :
                        matcher.value[k] = <<matcher.names[i], matcher.names[j]>>)
                     <=> are_similar_names(matcher.names[i], matcher.names[j],
                                           matcher.threshold))

\* C30: group_similar_names is deterministic: for the same list and
\* threshold every run returns the same mapping with the same canonical
\* label for every cluster, also when members of a cluster tie on token
\* count and length.
C30_GroupingDeterministic ==
    (matcher.op = "group_similar_names" /\ matcher.done) =>
        \A run \in group_similar_names(matcher.names, matcher.threshold) :
            run.groups = matcher.value

(***************************************************************************)
(* Claims about the parsers                                                *)
(***************************************************************************)
\* C27: standardize_date returns the ISO YYYY-MM-DD form of the same
\* calendar date for a datetime value and for a string in any of the layouts
\* YYYY-MM-DD, MM/DD/YYYY, DD-MM-YYYY, YYYY/MM/DD (the first layout that
\* matches), and null for null input or a string matching none of the
\* layouts; it never raises.
C27_DateRoundTrips ==
    date_call.done =>
        /\ \A c \in DateCases \cup DateTimeCases :
              c.input = date_call.input => date_call.value = c.expected
        /\ date_call.input \in NoDateCells => date_call.value = Null

(***************************************************************************)
(* Claims about the three report operations together                       *)
(***************************************************************************)
\* the sum of transaction_count over the rows of a report
RECURSIVE CountSum(_)
CountSum(rows) ==
    IF rows = <<>> THEN 0 ELSE Head(rows).transaction_count + CountSum(Tail(rows))

\* the sum of the (rounded) total_commission over the rows of a report
RECURSIVE TotalSum(_)
TotalSum(rows) ==
    IF rows = <<>> THEN Fin(0) ELSE FAdd(Head(rows).total_commission, TotalSum(Tail(rows)))

\* the totals of the rows are those of a split of the finite total s,
\* each rounded to two decimals: their sum is within half a cent for each row
SumsTo(rows, s) ==
    LET t == TotalSum(rows)
    IN  /\ IsFinite(t)
        /\ 2 * (t.v - s.v) <= 10 * Len(rows)
        /\ 2 * (s.v - t.v) <= 10 * Len(rows)

\* C28: the three report operations agree on the same filtered-by-period
\* batch: the summary's total_transactions equals the sum of
\* transaction_count over the rows of get_carrier_statistics and, when n
\* is at least the number of distinct agents, over the leaderboard; the
\* summary's total_commission equals the sum of the per-carrier and of the
\* per-agent totals before rounding.
C28_ReportsAgree ==
    (analyzer # 0 /\ "member_id" \in frames[analyzer].cols) =>
        /\ (report.op = "get_period_summary" /\ report.status = "returned") =>
              LET st == get_carrier_statistics(frames[analyzer], report.period)
              IN  /\ st.status = "returned"
                  /\ CountSum(st.value) = report.value[1].total_transactions
                  /\ SumsTo(st.value, report.value[1].total_commission)
        /\ (Called /\ result.n >= NumAgents) =>
              LET sm == get_period_summary(frames[analyzer], result.period, <<>>)
              IN  sm.status = "returned" =>
                      /\ result.status = "returned"
                      /\ CountSum(result.entries) = sm.value.total_transactions
                      /\ SumsTo(result.entries, sm.value.total_commission)

=============================================================================
